---- MODULE Spec2Model ----
(***************************************************************************)
(* Embeddable chat widget runtime of enterprise-ai-brain.                  *)
(*                                                                         *)
(*   Part I    frontend/public/widget.js  (AIChatbot.init, createChatbot,  *)
(*             the setup callback, sendMessage)                            *)
(*   Part II   the by-domain widget (FloorsInstallerChatbot)               *)
(*   Part III  the resilient widget variant appended to authStore.ts       *)
(*                                                                         *)
(* Time is counted in units of 500 ms, the smallest timer delay of the     *)
(* code.  Date.now() is modelled up to equality of the values it returns.  *)
(* Widget nodes are named by the createChatbot invocation that built them  *)
(* (their generation); document order is creation order, so that           *)
(* document.getElementById returns the lowest attached generation.         *)
(***************************************************************************)
EXTENDS Integers, Sequences, FiniteSets, TLC

\* ---------------------------------------------------------------- bounds
MaxInits == 2
ChatInits == 1
MaxSends == 2
MaxHost  == 1

\* ------------------------------------------------------- timer delays
GraceMs  == 1000
MountMs  == 1000
SetupMs  == 500
BackupMs == 5000

\* one unit of model time is the smallest delay
TimeUnit == SetupMs

GraceDelay  == GraceMs \div TimeUnit
MountDelay  == MountMs \div TimeUnit
SetupDelay  == SetupMs \div TimeUnit
BackupEarly == SetupMs \div TimeUnit

BackupDelay == BackupMs \div TimeUnit

MaxDocuments == 5

VARIABLES
  readyState,   \* document.readyState: "loading" or "done"
  body,         \* document.body is present
  listeners,    \* DOMContentLoaded listeners registered by waitForDOM
  timers,       \* pending setTimeout callbacks
  inits,        \* number of AIChatbot.init calls so far
  calls,        \* number of createChatbot invocations so far
  bodyAtCall,   \* per createChatbot invocation: was document.body present
  dateNow,      \* value Date.now() returns at this moment
  dateRead,     \* the current value of Date.now() has been read
  buttons,      \* generations of the attached #ai-chatbot-button elements
  windows,      \* generations of the attached #ai-chatbot-window elements
  conversationId, \* per createChatbot invocation: its conversationId
  display,      \* per generation: window.style.display
  input,        \* per generation: #chat-input value
  messages,     \* per generation: children of #chat-messages
  onclick,      \* per generation: window generation its button.onclick toggles
  closeHandler, \* per generation: window generation its closeBtn.onclick closes
  sendHandler,  \* per generation: createChatbot call whose sendMessage is installed
  subs,         \* accepted submissions: list generation, typingId, position
                \* (fetch, json, errjson, done), the path taken (ok,
                \* okThrow, server, serverThrow, rejected), the
                \* submissions that were awaiting their fetch when it began
                \* and the input value that was read
  posts,        \* bodies of the POST requests issued
  removedBy,    \* per submission: the submission whose step removed its placeholder
  fetchOrder,   \* submissions in the order their fetch settled
  hostOps,      \* number of host removals so far
  lastClick,    \* the panel control whose click handler the last step ran:
                \* "button", "close" or "none"
  loadedAtInit, \* per init call: document.readyState was not 'loading'
  sinceInit,    \* per init call: time since the call, in units of TimeUnit,
                \* counted while its backup check is pending
  backupLog,    \* per init call: its backup checks, each with the time since
                \* init, whether #ai-chatbot-button was found and whether
                \* createChatbot was invoked
  callLog,      \* per createChatbot invocation: the init call and the timer
                \* (mount or backup) it came from
  hostRemovedButton  \* a host script has removed an #ai-chatbot-button

\* history of the mount attempts
mountLog == <<loadedAtInit, sinceInit, backupLog, callLog, hostRemovedButton>>

wvars == <<readyState, body, listeners, timers, inits, calls, bodyAtCall,
           dateNow, dateRead, buttons, windows, conversationId, display, input,
           messages, onclick, closeHandler, sendHandler, subs, posts,
           removedBy, fetchOrder, hostOps, lastClick, mountLog>>

\* ------------------------------------- Part II: the by-domain widget
VARIABLES
  dReadyState,    \* document.readyState of the page that loads the script
  dBody,          \* document.body is present
  autoListener,   \* the DOMContentLoaded listener for initWidget is registered
  apiInits,       \* number of FloorsInstallerChatbot.init() calls so far
  currentTenant,  \* 0 for null, else the detected tenant
  isInitialized,  \* isInitialized
  isOpen,         \* isOpen
  lookups,        \* initWidget activations that passed the guard: each issued
                  \* one GET /api/tenant/detect; position and result
  containers,     \* number of #floors-chatbot-container elements attached
  chatDisplay,    \* style.display of the first #floors-chat-window
  chatInput,      \* value of the first #floors-chat-input
  chatMessages,   \* children of the first #floors-chat-messages
  chats,          \* submissions: position, whether a POST was issued, whether
                  \* a tenant lookup had ended without a tenant before,
                  \* whether a lookup was in flight and the value of
                  \* currentTenant when handleSendMessage ran
  apiRaised       \* a call of FloorsInstallerChatbot.open, close or init has
                  \* raised an exception into the calling script

dvars == <<dReadyState, dBody, autoListener, apiInits, currentTenant,
           isInitialized, isOpen, lookups, containers, chatDisplay, chatInput,
           chatMessages, chats, apiRaised>>

\* --------------------------------- Part III: the resilient widget variant
VARIABLES
  rLoading,    \* the document is still loading (DOMContentLoaded not yet fired)
  rBody,       \* document.body is present
  rInits,      \* number of AIChatbot.init calls so far
  rPending,    \* containers whose append waits for DOMContentLoaded, in
               \* listener order
  rDoc,        \* containers whose #ai-chatbot-button is in the document, in
               \* document order
  rTimers,     \* pending setup timeouts and installed intervals
  rHandlers,   \* containers whose button got its onclick from a setup callback
  rScroll,     \* enforcePosition listens for scroll on the document
  rStyle,      \* per container, the geometry properties of the button's
               \* inline style that hold a value written by the host
  rAge,        \* per container, time since the button's geometry was last as
               \* required, counted while an interval is installed
  rMutations,  \* number of host mutations so far
  rLast,       \* the re-assertion callback that made the last step: "tick",
               \* "scroll", or "none" for any other step
  rNow,        \* value Date.now() returns at this moment
  rRead,       \* the current value of Date.now() has been read
  rConv,       \* per init call: its conversationId
  rHandlerOf,  \* per container: the init call whose setup callback set the
               \* handlers of its nodes, 0 for none
  rDisplay,    \* per container: style.display of its #ai-chatbot-window
  rInput,      \* per container: value of its #chat-input
  rMessages,   \* per container: children of its #chat-messages
  rSubs        \* accepted submissions: container of the captured nodes,
               \* typingId, conversation_id sent, position and path taken

\* the conversation state of the resilient variant
rchat == <<rNow, rRead, rConv, rHandlerOf, rDisplay, rInput, rMessages, rSubs>>

rvars == <<rLoading, rBody, rInits, rPending, rDoc, rTimers, rHandlers,
           rScroll, rStyle, rAge, rMutations, rLast, rchat>>

\* ------------------------------------- Part IV: the dashboard stores
VARIABLES
  conversations,        \* chat store: ids of the conversations, newest first
  currentConversation,  \* chat store: id of currentConversation, 0 for null
  storeMessages,        \* chat store: messages
  isMessageLoading,     \* chat store: isMessageLoading
  sendCalls,            \* chat store: the sendMessage calls, each "await",
                        \* "resolved" or "rejected"
  user,                 \* auth store: user, 0 for null
  token,                \* auth store: token, 0 for null
  isAuthenticated,      \* auth store: isAuthenticated
  isLoading,            \* auth store: isLoading
  localToken,           \* localStorage item 'token', 0 for none
  authCalls,            \* auth store: the login, register and refreshUser
                        \* calls: operation, position, the token refreshUser
                        \* read, the access token login received and how the
                        \* call ended
  documents,            \* document store: documents, newest first
  uploadProgress,       \* document store: uploadProgress entries: file,
                        \* progress, status and the call that added the entry
  uploads,              \* document store: the uploadDocument calls: file and
                        \* position
  removals              \* document store: pending setTimeout callbacks that
                        \* filter uploadProgress

cvars == <<conversations, currentConversation, storeMessages, isMessageLoading,
           sendCalls>>

avars == <<user, token, isAuthenticated, isLoading, localToken, authCalls>>

uvars == <<documents, uploadProgress, uploads, removals>>

vars == <<wvars, dvars, rvars, cvars, avars, uvars>>

\* each script runs in a page of its own, each store is a state of its own
notWidget == <<dvars, rvars, cvars, avars, uvars>>
notDomain == <<wvars, rvars, cvars, avars, uvars>>
notResilient == <<wvars, dvars, cvars, avars, uvars>>
notChatStore == <<wvars, dvars, rvars, avars, uvars>>
notAuthStore == <<wvars, dvars, rvars, cvars, uvars>>
notDocumentStore == <<wvars, dvars, rvars, cvars, avars>>

MaxCalls == 2 * MaxInits
Gens == 1..MaxCalls

\* ------------------------------------------------------------- strings
Inputs == { <<>>, <<" ">>, <<" ", "h", " ">> }

RECURSIVE TrimLeft(_)
TrimLeft(s) == IF s # <<>> /\ Head(s) = " " THEN TrimLeft(Tail(s)) ELSE s

RECURSIVE TrimRight(_)
TrimRight(s) ==
  IF s # <<>> /\ s[Len(s)] = " " THEN TrimRight(SubSeq(s, 1, Len(s) - 1)) ELSE s

TrimNothing(s) == s

\* String.prototype.trim
Trim(s) == TrimRight(TrimLeft(s))

\* ----------------------------------------------------------- DOM helpers
Welcome == [kind |-> "welcome", sub |-> 0, tid |-> 0, text |-> <<>>]

UserMsg(n, t)   == [kind |-> "user",   sub |-> n, tid |-> 0, text |-> t]
TypingMsg(n, t) == [kind |-> "typing", sub |-> n, tid |-> t, text |-> <<>>]
BotMsg(n)       == [kind |-> "bot",    sub |-> n, tid |-> 0, text |-> <<"response">>]
ErrorMsg(n, t)  == [kind |-> "error",  sub |-> n, tid |-> 0, text |-> <<t>>]

RemoveAt(s, i) == SubSeq(s, 1, i - 1) \o SubSeq(s, i + 1, Len(s))

RenderFirst(list, m) == <<m>> \o list

\* messages.innerHTML += html
Render(list, m) == Append(list, m)

Min(S) == CHOOSE x \in S : \A y \in S : x <= y

\* document.getElementById('ai-chatbot-button'), 0 for null
button == IF buttons = {} THEN 0 ELSE Min(buttons)

\* document.getElementById('ai-chatbot-window'), 0 for null
window == IF windows = {} THEN 0 ELSE Min(windows)

\* index of the first element of list whose id is typing-<tid>, 0 if none
FirstTyping(list, tid) ==
  LET hits == { i \in 1..Len(list) : list[i].kind = "typing" /\ list[i].tid = tid }
  IN IF hits = {} THEN 0 ELSE Min(hits)

\* ------------------------------------------------------------- Init
WidgetInit ==
  /\ readyState = "loading"
  /\ body = FALSE
  /\ listeners = {}
  /\ timers = {}
  /\ inits = 0
  /\ calls = 0
  /\ bodyAtCall = [k \in Gens |-> FALSE]
  /\ dateNow = 0
  /\ dateRead = FALSE
  /\ buttons = {}
  /\ windows = {}
  /\ conversationId = [k \in Gens |-> 0]
  /\ display = [g \in Gens |-> "none"]
  /\ input = [g \in Gens |-> <<>>]
  /\ messages = [g \in Gens |-> <<>>]
  /\ onclick = [g \in Gens |-> 0]
  /\ closeHandler = [g \in Gens |-> 0]
  /\ sendHandler = [g \in Gens |-> 0]
  /\ subs = <<>>
  /\ posts = <<>>
  /\ removedBy = <<>>
  /\ fetchOrder = <<>>
  /\ hostOps = 0
  /\ lastClick = "none"
  /\ loadedAtInit = [i \in 1..MaxInits |-> FALSE]
  /\ sinceInit = [i \in 1..MaxInits |-> 0]
  /\ backupLog = [i \in 1..MaxInits |-> <<>>]
  /\ callLog = <<>>
  /\ hostRemovedButton = FALSE

Timer(kind, rem, id) == [kind |-> kind, rem |-> rem, id |-> id]

\* ------------------------------------------------- host environment
\* the parser reaches <body>
BodyParsed ==
  /\ UNCHANGED notWidget
  /\ UNCHANGED mountLog
  /\ readyState = "loading"
  /\ ~body
  /\ body' = TRUE
  /\ UNCHANGED <<readyState, listeners, timers, inits, calls, bodyAtCall,
                 dateNow, dateRead, buttons, windows, conversationId, display,
                 input, messages, onclick, closeHandler, sendHandler, subs,
                 posts, removedBy, fetchOrder, hostOps>>
  /\ lastClick' = "none"

\* the document fires DOMContentLoaded: every listener registered by
\* waitForDOM runs its callback, setTimeout(createChatbot, 1000)
DOMContentLoaded ==
  /\ UNCHANGED notWidget
  /\ UNCHANGED mountLog
  /\ readyState = "loading"
  /\ readyState' = "done"
  /\ body' = TRUE
  /\ timers' = timers \cup { Timer("mount", MountDelay, i) : i \in listeners }
  /\ listeners' = {}
  /\ UNCHANGED <<inits, calls, bodyAtCall, dateNow, dateRead, buttons, windows,
                 conversationId, display, input, messages, onclick,
                 closeHandler, sendHandler, subs, posts, removedBy, fetchOrder, hostOps>>
  /\ lastClick' = "none"

\* 500 ms pass: no callback is due
Advance ==
  /\ UNCHANGED notWidget
  /\ sinceInit' = [i \in 1..MaxInits |->
                     IF \E t \in timers : t.kind = "backup" /\ t.id = i
                       THEN sinceInit[i] + 1 ELSE sinceInit[i]]
  /\ UNCHANGED <<loadedAtInit, backupLog, callLog, hostRemovedButton>>
  /\ timers # {}
  /\ \A t \in timers : t.rem > 0
  /\ timers' = { Timer(t.kind, t.rem - 1, t.id) : t \in timers }
  /\ dateNow' = IF dateRead THEN dateNow + 1 ELSE dateNow
  /\ dateRead' = FALSE
  /\ UNCHANGED <<readyState, body, listeners, inits, calls, bodyAtCall, buttons,
                 windows, conversationId, display, input, messages, onclick,
                 closeHandler, sendHandler, subs, posts, removedBy, fetchOrder, hostOps>>
  /\ lastClick' = "none"

\* a millisecond passes
TickMs ==
  /\ UNCHANGED notWidget
  /\ UNCHANGED mountLog
  /\ dateRead
  /\ dateNow' = dateNow + 1
  /\ dateRead' = FALSE
  /\ UNCHANGED <<readyState, body, listeners, timers, inits, calls, bodyAtCall,
                 buttons, windows, conversationId, display, input, messages,
                 onclick, closeHandler, sendHandler, subs, posts, removedBy,
                 fetchOrder, hostOps>>
  /\ lastClick' = "none"

\* ------------------------------------------------- AIChatbot.init
\* waitForDOM(callback): the callback is setTimeout(createChatbot, 1000)
waitForDOM(i) ==
  IF readyState = "loading"
    THEN /\ listeners' = listeners \cup {i}
         /\ timers' = timers \cup {Timer("backup", BackupDelay, i)}
    ELSE /\ listeners' = listeners
         /\ timers' = timers \cup {Timer("grace", GraceDelay, i),
                                   Timer("backup", BackupDelay, i)}

\* AIChatbot.init(config): waitForDOM, then the backup setTimeout
init ==
  /\ UNCHANGED notWidget
  /\ loadedAtInit' = [loadedAtInit EXCEPT ![inits + 1] = (readyState # "loading")]
  /\ UNCHANGED <<sinceInit, backupLog, callLog, hostRemovedButton>>
  /\ inits < MaxInits
  /\ inits' = inits + 1
  /\ waitForDOM(inits + 1)
  /\ UNCHANGED <<readyState, body, calls, bodyAtCall, dateNow, dateRead, buttons,
                 windows, conversationId, display, input, messages, onclick,
                 closeHandler, sendHandler, subs, posts, removedBy, fetchOrder, hostOps>>
  /\ lastClick' = "none"

\* the 1000 ms grace timer of waitForDOM runs the callback of init
GraceFires ==
  /\ UNCHANGED notWidget
  /\ UNCHANGED mountLog
  /\ lastClick' = "none"
  /\ \E t \in timers :
       /\ t.kind = "grace"
       /\ t.rem = 0
       /\ timers' = (timers \ {t}) \cup {Timer("mount", MountDelay, t.id)}
       /\ UNCHANGED <<readyState, body, listeners, inits, calls, bodyAtCall,
                      dateNow, dateRead, buttons, windows, conversationId, display,
                      input, messages, onclick, closeHandler, sendHandler, subs,
                      posts, removedBy, fetchOrder, hostOps>>

KeepExisting(attached) == attached

\* document.querySelectorAll('#ai-chatbot-button, #ai-chatbot-window')
\*   .forEach(el => el.remove()): the buttons (or windows) left attached
RemoveExisting(attached) == {}

SetupAlways(t, k) == (timers \ {t}) \cup {Timer("setup", SetupDelay, k)}

\* the pending timers after createChatbot invocation k, run by the timer t:
\* the setup timeout comes after the document.body test and its return
TimersAfterCreate(t, k) ==
  IF body THEN (timers \ {t}) \cup {Timer("setup", SetupDelay, k)}
          ELSE timers \ {t}

\* createChatbot, run by the timer t
createChatbot(t) ==
  LET k == calls + 1 IN
  /\ calls' = k
  /\ callLog' = Append(callLog, [by |-> t.id, kind |-> t.kind])
  /\ bodyAtCall' = [bodyAtCall EXCEPT ![k] = body]
  /\ conversationId' = [conversationId EXCEPT ![k] = dateNow]
  /\ dateRead' = TRUE
  /\ IF body
       THEN /\ buttons' = RemoveExisting(buttons) \cup {k}
            /\ windows' = RemoveExisting(windows) \cup {k}
            /\ display' = [display EXCEPT ![k] = "none"]
            /\ input' = [input EXCEPT ![k] = <<>>]
            /\ messages' = [messages EXCEPT ![k] = <<Welcome>>]
       ELSE /\ buttons' = RemoveExisting(buttons)
            /\ windows' = RemoveExisting(windows)
            /\ UNCHANGED <<display, input, messages>>
  /\ timers' = TimersAfterCreate(t, k)
  /\ UNCHANGED <<readyState, body, listeners, inits, dateNow, onclick,
                 closeHandler, sendHandler, subs, posts, removedBy, fetchOrder, hostOps>>

\* setTimeout(createChatbot, 1000) fires
MountFires ==
  /\ UNCHANGED notWidget
  /\ UNCHANGED <<loadedAtInit, sinceInit, backupLog, hostRemovedButton>>
  /\ lastClick' = "none"
  /\ \E t \in timers :
       /\ t.kind = "mount"
       /\ t.rem = 0
       /\ createChatbot(t)

AlwaysRetry == TRUE

\* if (!document.getElementById('ai-chatbot-button'))
NeedsRetry == button = 0

\* the 5000 ms backup check
BackupFires ==
  /\ UNCHANGED notWidget
  /\ UNCHANGED <<loadedAtInit, sinceInit, hostRemovedButton>>
  /\ lastClick' = "none"
  /\ \E t \in timers :
       /\ t.kind = "backup"
       /\ t.rem = 0
       /\ backupLog' = [backupLog EXCEPT ![t.id] =
             Append(@, [at |-> sinceInit[t.id], found |-> (button # 0),
                        called |-> NeedsRetry])]
       /\ IF NeedsRetry
            THEN createChatbot(t)
            ELSE /\ timers' = timers \ {t}
                 /\ UNCHANGED callLog
                 /\ UNCHANGED <<readyState, body, listeners, inits, calls,
                                bodyAtCall, dateNow, dateRead, buttons, windows,
                                conversationId, display, input, messages, onclick,
                                closeHandler, sendHandler, subs, posts, removedBy,
                                fetchOrder, hostOps>>

\* the 500 ms setup callback of createChatbot call t.id: the six elements
\* are looked up by id; chat-close, chat-send, chat-input and chat-messages
\* are descendants of the window
SetupFires ==
  /\ UNCHANGED notWidget
  /\ UNCHANGED mountLog
  /\ lastClick' = "none"
  /\ \E t \in timers :
       /\ t.kind = "setup"
       /\ t.rem = 0
       /\ timers' = timers \ {t}
       /\ IF button = 0 \/ window = 0
            THEN UNCHANGED <<onclick, closeHandler, sendHandler>>
            ELSE /\ onclick' = [onclick EXCEPT ![button] = window]
                 /\ closeHandler' = [closeHandler EXCEPT ![window] = window]
                 /\ sendHandler' = [sendHandler EXCEPT ![window] = t.id]
       /\ UNCHANGED <<readyState, body, listeners, inits, calls, bodyAtCall,
                      dateNow, dateRead, buttons, windows, conversationId, display,
                      input, messages, subs, posts, removedBy, fetchOrder, hostOps>>

\* ------------------------------------------------- host interference
\* a host script removes an attached #ai-chatbot-button
HostRemovesButton ==
  /\ UNCHANGED notWidget
  /\ hostRemovedButton' = TRUE
  /\ UNCHANGED <<loadedAtInit, sinceInit, backupLog, callLog>>
  /\ hostOps < MaxHost
  /\ \E g \in buttons : buttons' = buttons \ {g}
  /\ hostOps' = hostOps + 1
  /\ UNCHANGED <<readyState, body, listeners, timers, inits, calls, bodyAtCall,
                 dateNow, dateRead, windows, conversationId, display, input,
                 messages, onclick, closeHandler, sendHandler, subs, posts,
                 removedBy, fetchOrder>>
  /\ lastClick' = "none"

\* a host script removes an attached #ai-chatbot-window
HostRemovesWindow ==
  /\ UNCHANGED notWidget
  /\ UNCHANGED mountLog
  /\ hostOps < MaxHost
  /\ \E g \in windows : windows' = windows \ {g}
  /\ hostOps' = hostOps + 1
  /\ UNCHANGED <<readyState, body, listeners, timers, inits, calls, bodyAtCall,
                 dateNow, dateRead, buttons, conversationId, display, input,
                 messages, onclick, closeHandler, sendHandler, subs, posts,
                 removedBy, fetchOrder>>
  /\ lastClick' = "none"

\* ------------------------------------------------- click handlers
ToggleOpens(d) == "block"

\* window.style.display = isHidden ? 'block' : 'none'
Toggle(d) == IF d = "none" \/ d = "" THEN "block" ELSE "none"

\* button.onclick
ClickButton ==
  /\ UNCHANGED notWidget
  /\ UNCHANGED mountLog
  /\ button # 0
  /\ onclick[button] # 0
  /\ display' = [display EXCEPT ![onclick[button]] = Toggle(@)]
  /\ UNCHANGED <<readyState, body, listeners, timers, inits, calls, bodyAtCall,
                 dateNow, dateRead, buttons, windows, conversationId, input,
                 messages, onclick, closeHandler, sendHandler, subs, posts,
                 removedBy, fetchOrder, hostOps>>
  /\ lastClick' = "button"

\* closeBtn.onclick
ClickClose ==
  /\ UNCHANGED notWidget
  /\ UNCHANGED mountLog
  /\ window # 0
  /\ closeHandler[window] # 0
  /\ display' = [display EXCEPT ![closeHandler[window]] = "none"]
  /\ UNCHANGED <<readyState, body, listeners, timers, inits, calls, bodyAtCall,
                 dateNow, dateRead, buttons, windows, conversationId, input,
                 messages, onclick, closeHandler, sendHandler, subs, posts,
                 removedBy, fetchOrder, hostOps>>
  /\ lastClick' = "close"

\* ------------------------------------------------- sendMessage
RequestLatest(m, c) ==
  [message |-> m, conversation_id |-> conversationId[calls], use_rag |-> TRUE,
   max_documents |-> MaxDocuments]

\* the body of the POST to <apiUrl>/api/chat/public
Request(m, c) ==
  [message |-> m, conversation_id |-> c, use_rag |-> TRUE,
   max_documents |-> MaxDocuments]

\* the submissions whose fetch has not settled
InFlight == { m \in 1..Len(subs) : subs[m].pc = "fetch" }

\* sendMessage up to its first await, run by sendBtn.onclick or by Enter in
\* the input when the input holds `value'
sendMessage ==
  /\ UNCHANGED notWidget
  /\ UNCHANGED mountLog
  /\ window # 0
  /\ sendHandler[window] # 0
  /\ \E value \in Inputs :
     LET g == window
         message == Trim(value)
         n == Len(subs) + 1
         typingId == dateNow
     IN IF message # <<>>
          THEN /\ n <= MaxSends
               /\ messages' = [messages EXCEPT ![g] =
                     Render(Render(@, UserMsg(n, message)), TypingMsg(n, typingId))]
               /\ input' = [input EXCEPT ![g] = <<>>]
               /\ dateRead' = TRUE
               /\ posts' = Append(posts, Request(message, conversationId[sendHandler[g]]))
               /\ subs' = Append(subs, [gen |-> g, typingId |-> typingId,
                                         pc |-> "fetch", outcome |-> "pending",
                                         during |-> InFlight, raw |-> value])
               /\ removedBy' = Append(removedBy, 0)
          ELSE /\ input' = [input EXCEPT ![g] = value]
               /\ UNCHANGED <<messages, dateRead, posts, subs, removedBy>>
  /\ UNCHANGED <<readyState, body, listeners, timers, inits, calls, bodyAtCall,
                 dateNow, buttons, windows, conversationId, display, onclick,
                 closeHandler, sendHandler, fetchOrder, hostOps>>
  /\ lastClick' = "none"

\* document.getElementById(typingId): the element is looked up in the
\* document, that is in the message list of the attached window
TypingIndex(tid) == IF window = 0 THEN 0 ELSE FirstTyping(messages[window], tid)

\* const typingElement = document.getElementById(typingId);
\* if (typingElement) typingElement.remove();
MessagesAfterRemove(tid) ==
  IF TypingIndex(tid) = 0 THEN messages
  ELSE [messages EXCEPT ![window] = RemoveAt(@, TypingIndex(tid))]

RemovedByAfterRemove(n, tid) ==
  IF TypingIndex(tid) = 0 THEN removedBy
  ELSE [removedBy EXCEPT ![messages[window][TypingIndex(tid)].sub] = n]

\* the text of the error message of the non-OK branch
ServerErrorText(b) == IF b = "detail" THEN "detail" ELSE "generic"

CatchErrorGeneric == "generic"

\* the text of the error message of the catch branch
CatchErrorText == "apiUrl"

\* the catch branch: remove the placeholder if it still exists, append the
\* connection error naming config.apiUrl
CatchBranch(n, how) ==
  LET tid == subs[n].typingId
      g == subs[n].gen
  IN /\ messages' = [MessagesAfterRemove(tid) EXCEPT ![g] =
                        Render(@, ErrorMsg(n, CatchErrorText))]
     /\ removedBy' = RemovedByAfterRemove(n, tid)
     /\ subs' = [subs EXCEPT ![n].pc = "done", ![n].outcome = how]

AfterResolveDone(ok) == "done"

\* where sendMessage waits after the fetch resolved: at response.json() of
\* the OK branch or at response.json().catch(...) of the non-OK branch
AfterResolve(ok) == IF ok THEN "json" ELSE "errjson"

\* fetch resolves with a response: the placeholder is removed, then the
\* function awaits response.json()
FetchResolves ==
  /\ UNCHANGED notWidget
  /\ UNCHANGED mountLog
  /\ lastClick' = "none"
  /\ \E n \in 1..Len(subs), ok \in BOOLEAN :
       /\ subs[n].pc = "fetch"
       /\ messages' = MessagesAfterRemove(subs[n].typingId)
       /\ removedBy' = RemovedByAfterRemove(n, subs[n].typingId)
       /\ subs' = [subs EXCEPT ![n].pc = AfterResolve(ok)]
       /\ fetchOrder' = Append(fetchOrder, n)
       /\ UNCHANGED <<readyState, body, listeners, timers, inits, calls,
                      bodyAtCall, dateNow, dateRead, buttons, windows,
                      conversationId, display, input, onclick, closeHandler,
                      sendHandler, posts, hostOps>>

\* fetch rejects: the catch branch runs
FetchRejects ==
  /\ UNCHANGED notWidget
  /\ UNCHANGED mountLog
  /\ lastClick' = "none"
  /\ \E n \in 1..Len(subs) :
       /\ subs[n].pc = "fetch"
       /\ CatchBranch(n, "rejected")
       /\ fetchOrder' = Append(fetchOrder, n)
       /\ UNCHANGED <<readyState, body, listeners, timers, inits, calls,
                      bodyAtCall, dateNow, dateRead, buttons, windows,
                      conversationId, display, input, onclick, closeHandler,
                      sendHandler, posts, hostOps>>

\* what response.json() of an OK response can deliver: a body with a
\* response string, a body without one (data.response.replace throws), or a
\* rejection
OkBodies == {"wellformed", "noresponse", "unparseable"}

\* what response.json().catch(() => ({})) of a non-OK response can deliver:
\* an object with detail, an object without (or {} from the catch), or null
\* (errorData.detail throws)
ErrBodies == {"detail", "nodetail", "null"}

\* await response.json() of an OK response settles
JsonSettles ==
  /\ UNCHANGED notWidget
  /\ UNCHANGED mountLog
  /\ lastClick' = "none"
  /\ \E n \in 1..Len(subs), b \in OkBodies :
       /\ subs[n].pc = "json"
       /\ IF b = "wellformed"
            THEN /\ messages' = [messages EXCEPT ![subs[n].gen] = Render(@, BotMsg(n))]
                 /\ subs' = [subs EXCEPT ![n].pc = "done", ![n].outcome = "ok"]
                 /\ UNCHANGED removedBy
            ELSE CatchBranch(n, "okThrow")
       /\ UNCHANGED <<readyState, body, listeners, timers, inits, calls,
                      bodyAtCall, dateNow, dateRead, buttons, windows,
                      conversationId, display, input, onclick, closeHandler,
                      sendHandler, posts, fetchOrder, hostOps>>

\* await response.json().catch(() => ({})) of a non-OK response settles
ErrorJsonSettles ==
  /\ UNCHANGED notWidget
  /\ UNCHANGED mountLog
  /\ lastClick' = "none"
  /\ \E n \in 1..Len(subs), b \in ErrBodies :
       /\ subs[n].pc = "errjson"
       /\ IF b = "null"
            THEN CatchBranch(n, "serverThrow")
            ELSE /\ messages' = [messages EXCEPT ![subs[n].gen] =
                                    Render(@, ErrorMsg(n, ServerErrorText(b)))]
                 /\ subs' = [subs EXCEPT ![n].pc = "done", ![n].outcome = "server"]
                 /\ UNCHANGED removedBy
       /\ UNCHANGED <<readyState, body, listeners, timers, inits, calls,
                      bodyAtCall, dateNow, dateRead, buttons, windows,
                      conversationId, display, input, onclick, closeHandler,
                      sendHandler, posts, fetchOrder, hostOps>>


\* =================================================================
\* Part II: the by-domain widget (FloorsInstallerChatbot)
\* =================================================================

\* the state right after the script has run, with document.readyState rs:
\* the auto-initialisation has registered initWidget for DOMContentLoaded
\* or has called it
DomainInit(rs) ==
  /\ dReadyState = rs
  /\ dBody = (rs # "loading")
  /\ autoListener = (rs = "loading")
  /\ apiInits = 0
  /\ currentTenant = 0
  /\ isInitialized = FALSE
  /\ isOpen = FALSE
  /\ lookups = IF rs = "loading" THEN <<>> ELSE <<[pc |-> "fetch", result |-> "pending"]>>
  /\ containers = 0
  /\ chatDisplay = "none"
  /\ chatInput = <<>>
  /\ chatMessages = <<>>
  /\ chats = <<>>
  /\ apiRaised = FALSE

\* initWidget up to await detectTenant(): the guard, then the GET
initWidget ==
  lookups' = IF isInitialized THEN lookups
             ELSE Append(lookups, [pc |-> "fetch", result |-> "pending"])

\* the parser reaches <body>
DomainBodyParsed ==
  /\ UNCHANGED notDomain
  /\ UNCHANGED apiRaised
  /\ dReadyState = "loading"
  /\ ~dBody
  /\ dBody' = TRUE
  /\ UNCHANGED <<dReadyState, autoListener, apiInits, currentTenant,
                 isInitialized, isOpen, lookups, containers, chatDisplay,
                 chatInput, chatMessages, chats>>

\* DOMContentLoaded: the registered listener calls initWidget
DomainContentLoaded ==
  /\ UNCHANGED notDomain
  /\ UNCHANGED apiRaised
  /\ dReadyState = "loading"
  /\ dReadyState' = "done"
  /\ dBody' = TRUE
  /\ autoListener' = FALSE
  /\ IF autoListener THEN initWidget ELSE UNCHANGED lookups
  /\ UNCHANGED <<apiInits, currentTenant, isInitialized, isOpen, containers,
                 chatDisplay, chatInput, chatMessages, chats>>

\* the host page calls FloorsInstallerChatbot.init()
ApiInit ==
  /\ UNCHANGED notDomain
  /\ UNCHANGED apiRaised
  /\ apiInits < MaxInits
  /\ apiInits' = apiInits + 1
  /\ initWidget
  /\ UNCHANGED <<dReadyState, dBody, autoListener, currentTenant,
                 isInitialized, isOpen, containers, chatDisplay, chatInput,
                 chatMessages, chats>>

\* how the lookup of detectTenant can end: status success with a tenant;
\* another status; no tenant field; fetch rejects; the body is not JSON; the
\* body is JSON null
DetectOutcomes == {"success", "nomatch", "notenant", "rejected", "notjson", "null"}

\* detectTenant's return value
TenantDetected(o) == o = "success"

DomainWelcome == [kind |-> "welcome", sub |-> 0]

\* detectTenant settles and initWidget runs to its end: createChatWidget
\* (document.body.insertAdjacentHTML throws without a body, which ends the
\* activation), the listeners on the elements found by id, isInitialized
DetectSettles ==
  /\ UNCHANGED notDomain
  /\ UNCHANGED apiRaised
  /\ \E i \in 1..Len(lookups), o \in DetectOutcomes :
    /\ lookups[i].pc = "fetch"
    /\ currentTenant' = IF TenantDetected(o) THEN 1 ELSE currentTenant
    /\ IF dBody
         THEN /\ containers' = containers + 1
              /\ chatMessages' = IF containers = 0 THEN <<DomainWelcome>> ELSE chatMessages
              /\ isInitialized' = TRUE
              /\ lookups' = [lookups EXCEPT ![i] =
                   [pc |-> "done", result |-> IF TenantDetected(o) THEN "tenant" ELSE "none"]]
         ELSE /\ lookups' = [lookups EXCEPT ![i] =
                   [pc |-> "threw", result |-> IF TenantDetected(o) THEN "tenant" ELSE "none"]]
              /\ UNCHANGED <<containers, chatMessages, isInitialized>>
    /\ UNCHANGED <<dReadyState, dBody, autoListener, apiInits, isOpen,
                   chatDisplay, chatInput, chats>>

DomainMsg(kind, n) == [kind |-> kind, sub |-> n]

\* index of the first element with id typing-indicator, 0 if none
FirstIndicator(list) ==
  LET hits == { i \in 1..Len(list) : list[i].kind = "typing" }
  IN IF hits = {} THEN 0 ELSE Min(hits)

\* document.getElementById('typing-indicator')?.remove()
RemoveIndicator(list) ==
  IF FirstIndicator(list) = 0 THEN list ELSE RemoveAt(list, FirstIndicator(list))

\* a lookup has ended without a tenant
LookupFailed == \E i \in 1..Len(lookups) : lookups[i].result = "none"

\* a GET /api/tenant/detect is in flight
LookupPending == \E i \in 1..Len(lookups) : lookups[i].pc = "fetch"

\* handleSendMessage, run by the click listener of #floors-send-btn: without
\* a tenant sendMessage returns its error object without a request and the
\* handler finishes in the same task; with a tenant it issues the POST
handleSendMessage ==
  /\ UNCHANGED notDomain
  /\ UNCHANGED apiRaised
  /\ containers > 0
  /\ \E value \in Inputs :
     LET message == Trim(value)
         n == Len(chats) + 1
         shown == chatMessages \o <<DomainMsg("user", n), DomainMsg("typing", n)>>
     IN IF message = <<>>
          THEN /\ chatInput' = value
               /\ UNCHANGED <<chatMessages, chats>>
          ELSE /\ n <= MaxSends
               /\ chatInput' = <<>>
               /\ IF currentTenant = 0
                    THEN /\ chatMessages' = Append(RemoveIndicator(shown), DomainMsg("notenant", n))
                         /\ chats' = Append(chats, [pc |-> "done", posted |-> FALSE,
                                                     afterFail |-> LookupFailed,
                                                     lookupPending |-> LookupPending,
                                                     tenant |-> currentTenant])
                    ELSE /\ chatMessages' = shown
                         /\ chats' = Append(chats, [pc |-> "fetch", posted |-> TRUE,
                                                     afterFail |-> LookupFailed,
                                                     lookupPending |-> LookupPending,
                                                     tenant |-> currentTenant])
  /\ UNCHANGED <<dReadyState, dBody, autoListener, apiInits, currentTenant,
                 isInitialized, isOpen, lookups, containers, chatDisplay>>

\* how the POST of sendMessage can end: status success with a response text
\* (and sources or none); status success without a response text (addMessage
\* throws and the catch of handleSendMessage renders its error); another
\* status; a rejection or an unreadable body
ChatOutcomes == {"reply", "replySources", "noText", "error", "failed"}

\* the POST settles and handleSendMessage runs to its end
ChatSettles ==
  /\ UNCHANGED notDomain
  /\ UNCHANGED apiRaised
  /\ \E n \in 1..Len(chats), o \in ChatOutcomes :
    /\ chats[n].pc = "fetch"
    /\ chats' = [chats EXCEPT ![n].pc = "done"]
    /\ LET removed == RemoveIndicator(chatMessages) IN
       chatMessages' =
         CASE o = "reply" -> Append(removed, DomainMsg("bot", n))
           [] o = "replySources" -> removed \o <<DomainMsg("bot", n), DomainMsg("sources", n)>>
           [] o = "noText" -> Append(RemoveIndicator(removed), DomainMsg("handlerError", n))
           [] o = "error" -> Append(removed, DomainMsg("backendError", n))
           [] o = "failed" -> Append(removed, DomainMsg("connectionError", n))
    /\ UNCHANGED <<dReadyState, dBody, autoListener, apiInits, currentTenant,
                   isInitialized, isOpen, lookups, containers, chatDisplay,
                   chatInput>>

closeChatDisplayOnly ==
  IF containers = 0
    THEN UNCHANGED <<chatDisplay, isOpen>>
    ELSE chatDisplay' = "none" /\ UNCHANGED isOpen

\* closeChat: the style write on the element found by id raises a TypeError
\* when there is none, before isOpen is written
closeChat ==
  IF containers = 0
    THEN UNCHANGED <<chatDisplay, isOpen>>
    ELSE chatDisplay' = "none" /\ isOpen' = FALSE

\* toggleChat
toggleChat ==
  IF isOpen THEN closeChat
  ELSE IF containers = 0
    THEN UNCHANGED <<chatDisplay, isOpen>>
    ELSE chatDisplay' = "block" /\ isOpen' = TRUE

\* chatWindow.style on the null result of getElementById raises
Raises(needsNode) == needsNode /\ containers = 0

\* FloorsInstallerChatbot.open(): if (!isOpen) toggleChat()
ApiOpen ==
  /\ UNCHANGED notDomain
  /\ IF isOpen THEN UNCHANGED <<chatDisplay, isOpen>> ELSE toggleChat
  /\ apiRaised' = (apiRaised \/ Raises(~isOpen))
  /\ UNCHANGED <<dReadyState, dBody, autoListener, apiInits, currentTenant,
                 isInitialized, lookups, containers, chatInput, chatMessages,
                 chats>>

\* FloorsInstallerChatbot.close(): closeChat
ApiClose ==
  /\ UNCHANGED notDomain
  /\ closeChat
  /\ apiRaised' = (apiRaised \/ Raises(TRUE))
  /\ UNCHANGED <<dReadyState, dBody, autoListener, apiInits, currentTenant,
                 isInitialized, lookups, containers, chatInput, chatMessages,
                 chats>>

\* a click on #floors-chat-toggle: toggleChat
ToggleClick ==
  /\ UNCHANGED notDomain
  /\ containers > 0
  /\ toggleChat
  /\ UNCHANGED <<dReadyState, dBody, autoListener, apiInits, currentTenant,
                 isInitialized, lookups, containers, chatInput, chatMessages,
                 chats, apiRaised>>

\* a click on #floors-chat-close: closeChat
CloseClick ==
  /\ UNCHANGED notDomain
  /\ containers > 0
  /\ closeChat
  /\ UNCHANGED <<dReadyState, dBody, autoListener, apiInits, currentTenant,
                 isInitialized, lookups, containers, chatInput, chatMessages,
                 chats, apiRaised>>

NextDomain ==
  \/ DomainBodyParsed
  \/ DomainContentLoaded
  \/ ApiInit
  \/ DetectSettles
  \/ handleSendMessage
  \/ ChatSettles
  \/ ApiOpen
  \/ ApiClose
  \/ ToggleClick
  \/ CloseClick

\* =================================================================
\* Part III: the resilient widget variant (window.AIChatbot.init)
\* =================================================================

MaxMutations == 2

IntervalMs == 1000

IntervalDelay == IntervalMs \div TimeUnit

\* an age beyond every deadline of interest
AgeCap == IntervalDelay + 1

\* the properties of the button's inline style written by every interval tick
\* that the host may overwrite
Geometry == {"position", "bottom", "right", "zIndex"}

Containers == 1..MaxInits

RTimer(kind, rem, id) == [kind |-> kind, rem |-> rem, id |-> id]

\* the state after the script has defined window.AIChatbot
ResilientInit(loading) ==
  /\ rLoading = loading
  /\ rBody = ~loading
  /\ rInits = 0
  /\ rPending = <<>>
  /\ rDoc = <<>>
  /\ rTimers = {}
  /\ rHandlers = {}
  /\ rScroll = FALSE
  /\ rStyle = [c \in Containers |-> {}]
  /\ rAge = [c \in Containers |-> 0]
  /\ rMutations = 0
  /\ rLast = "none"
  /\ rNow = 0
  /\ rRead = FALSE
  /\ rConv = [c \in Containers |-> 0]
  /\ rHandlerOf = [c \in Containers |-> 0]
  /\ rDisplay = [c \in Containers |-> "none"]
  /\ rInput = [c \in Containers |-> <<>>]
  /\ rMessages = [c \in Containers |-> <<>>]
  /\ rSubs = <<>>

IntervalInstalled == \E t \in rTimers : t.kind = "interval"

InDocument == { rDoc[i] : i \in 1..Len(rDoc) }

\* document.getElementById('ai-chatbot-button'): the first in document order
chatButton == IF rDoc = <<>> THEN 0 ELSE rDoc[1]

\* the parser reaches <body>
ResilientBodyParsed ==
  /\ UNCHANGED notResilient
  /\ UNCHANGED rchat
  /\ rLoading
  /\ ~rBody
  /\ rBody' = TRUE
  /\ rLast' = "none"
  /\ UNCHANGED <<rLoading, rInits, rPending, rDoc, rTimers, rHandlers, rScroll,
                 rStyle, rAge, rMutations>>

\* DOMContentLoaded: every registered listener appends its container
ResilientContentLoaded ==
  /\ UNCHANGED notResilient
  /\ UNCHANGED rchat
  /\ rLoading
  /\ rLoading' = FALSE
  /\ rBody' = TRUE
  /\ rDoc' = rDoc \o rPending
  /\ rPending' = <<>>
  /\ rLast' = "none"
  /\ UNCHANGED <<rInits, rTimers, rHandlers, rScroll, rStyle, rAge, rMutations>>

\* AIChatbot.init: remove the widget nodes found in the document, build the
\* container, append it now or at DOMContentLoaded, schedule the setup
ResilientInitCall ==
  /\ UNCHANGED notResilient
  /\ rConv' = [rConv EXCEPT ![rInits + 1] = rNow]
  /\ rRead' = TRUE
  /\ rMessages' = [rMessages EXCEPT ![rInits + 1] = <<Welcome>>]
  /\ UNCHANGED <<rNow, rHandlerOf, rDisplay, rInput, rSubs>>
  /\ rInits < MaxInits
  /\ rInits' = rInits + 1
  /\ LET c == rInits + 1 IN
       /\ IF rBody
            THEN rDoc' = <<c>> /\ UNCHANGED rPending
            ELSE rDoc' = <<>> /\ rPending' = Append(rPending, c)
       /\ rTimers' = rTimers \cup {RTimer("setup", SetupDelay, c)}
  /\ rLast' = "none"
  /\ UNCHANGED <<rLoading, rBody, rHandlers, rScroll, rStyle, rAge, rMutations>>

\* the setup callback: without the nodes in the document it returns; else it
\* sets the handlers on the nodes found by id, installs the interval and
\* adds enforcePosition as a scroll listener of the document
ResilientSetupFires ==
  /\ UNCHANGED notResilient
  /\ UNCHANGED <<rNow, rRead, rConv, rDisplay, rInput, rMessages, rSubs>>
  /\ \E t \in rTimers :
       /\ t.kind = "setup"
       /\ t.rem = 0
       /\ IF chatButton = 0
            THEN /\ rTimers' = rTimers \ {t}
                 /\ UNCHANGED <<rHandlers, rScroll, rHandlerOf>>
            ELSE /\ rTimers' = (rTimers \ {t}) \cup {RTimer("interval", IntervalDelay, t.id)}
                 /\ rHandlers' = rHandlers \cup {chatButton}
                 /\ rHandlerOf' = [rHandlerOf EXCEPT ![chatButton] = t.id]
                 /\ rScroll' = TRUE
  /\ rLast' = "none"
  /\ UNCHANGED <<rLoading, rBody, rInits, rPending, rDoc, rStyle, rAge, rMutations>>

\* the writes of the interval callback and of enforcePosition on the button
\* found by id: position, bottom, right and z-index get their required values
RestoreGeometry(style, found) ==
  IF found = 0 THEN style ELSE [style EXCEPT ![found] = {}]

PanelShown(panels, found) ==
  IF found = 0 THEN panels ELSE [panels EXCEPT ![found] = "block"]

\* the interval callback writes position, bottom, right and z-index of the
\* window found by id, and enforcePosition writes the cssText of the button:
\* neither writes the display of the window
PanelAfterRestore(panels, found) == panels

AgeAfterRestore(age, found) ==
  IF found = 0 THEN age ELSE [age EXCEPT ![found] = 0]

\* one tick of an installed interval
IntervalTick ==
  /\ UNCHANGED notResilient
  /\ rDisplay' = PanelAfterRestore(rDisplay, chatButton)
  /\ UNCHANGED <<rNow, rRead, rConv, rHandlerOf, rInput, rMessages, rSubs>>
  /\ \E t \in rTimers :
       /\ t.kind = "interval"
       /\ t.rem = 0
       /\ rTimers' = (rTimers \ {t}) \cup {RTimer("interval", IntervalDelay, t.id)}
  /\ rStyle' = RestoreGeometry(rStyle, chatButton)
  /\ rAge' = AgeAfterRestore(rAge, chatButton)
  /\ rLast' = "tick"
  /\ UNCHANGED <<rLoading, rBody, rInits, rPending, rDoc, rHandlers, rScroll,
                 rMutations>>

\* a scroll event reaches the document: enforcePosition
DocumentScroll ==
  /\ UNCHANGED notResilient
  /\ rDisplay' = PanelAfterRestore(rDisplay, chatButton)
  /\ UNCHANGED <<rNow, rRead, rConv, rHandlerOf, rInput, rMessages, rSubs>>
  /\ rScroll
  /\ rStyle' = RestoreGeometry(rStyle, chatButton)
  /\ rAge' = AgeAfterRestore(rAge, chatButton)
  /\ rLast' = "scroll"
  /\ UNCHANGED <<rLoading, rBody, rInits, rPending, rDoc, rTimers, rHandlers,
                 rScroll, rMutations>>

\* a host script overwrites some geometry properties of the inline style of a
\* button in the document
HostMutates ==
  /\ UNCHANGED notResilient
  /\ UNCHANGED rchat
  /\ rMutations < MaxMutations
  /\ rMutations' = rMutations + 1
  /\ \E c \in InDocument, props \in (SUBSET Geometry) \ {{}} :
       /\ rStyle' = [rStyle EXCEPT ![c] = @ \cup props]
       /\ rAge' = IF rStyle[c] = {} THEN [rAge EXCEPT ![c] = 0] ELSE rAge
  /\ rLast' = "none"
  /\ UNCHANGED <<rLoading, rBody, rInits, rPending, rDoc, rTimers, rHandlers,
                 rScroll>>

\* time passes while no callback is due
ResilientAdvance ==
  /\ UNCHANGED notResilient
  /\ rNow' = IF rRead THEN rNow + 1 ELSE rNow
  /\ rRead' = FALSE
  /\ UNCHANGED <<rConv, rHandlerOf, rDisplay, rInput, rMessages, rSubs>>
  /\ rTimers # {}
  /\ \A t \in rTimers : t.rem > 0
  /\ rTimers' = { RTimer(t.kind, t.rem - 1, t.id) : t \in rTimers }
  /\ rAge' = [c \in Containers |->
                IF IntervalInstalled /\ c \in InDocument /\ rStyle[c] # {}
                  THEN IF rAge[c] < AgeCap THEN rAge[c] + 1 ELSE AgeCap
                  ELSE rAge[c]]
  /\ rLast' = "none"
  /\ UNCHANGED <<rLoading, rBody, rInits, rPending, rDoc, rHandlers, rScroll,
                 rStyle, rMutations>>

\* a millisecond passes
ResilientTickMs ==
  /\ UNCHANGED notResilient
  /\ rRead
  /\ rNow' = rNow + 1
  /\ rRead' = FALSE
  /\ rLast' = "none"
  /\ UNCHANGED <<rLoading, rBody, rInits, rPending, rDoc, rTimers, rHandlers,
                 rScroll, rStyle, rAge, rMutations, rConv, rHandlerOf, rDisplay,
                 rInput, rMessages, rSubs>>

\* window.style.display = window.style.display === 'none' ? 'block' : 'none'
ResilientToggle(d) == IF d = "none" THEN "block" ELSE "none"

\* button.onclick of the button found by id
ResilientClickButton ==
  /\ UNCHANGED notResilient
  /\ chatButton # 0
  /\ rHandlerOf[chatButton] # 0
  /\ rDisplay' = [rDisplay EXCEPT ![chatButton] = ResilientToggle(@)]
  /\ rLast' = "none"
  /\ UNCHANGED <<rLoading, rBody, rInits, rPending, rDoc, rTimers, rHandlers,
                 rScroll, rStyle, rAge, rMutations, rNow, rRead, rConv,
                 rHandlerOf, rInput, rMessages, rSubs>>

\* closeBtn.onclick
ResilientClickClose ==
  /\ UNCHANGED notResilient
  /\ chatButton # 0
  /\ rHandlerOf[chatButton] # 0
  /\ rDisplay' = [rDisplay EXCEPT ![chatButton] = "none"]
  /\ rLast' = "none"
  /\ UNCHANGED <<rLoading, rBody, rInits, rPending, rDoc, rTimers, rHandlers,
                 rScroll, rStyle, rAge, rMutations, rNow, rRead, rConv,
                 rHandlerOf, rInput, rMessages, rSubs>>

\* what a step of sendMessage leaves alone
ResilientMount ==
  <<rLoading, rBody, rInits, rPending, rDoc, rTimers, rHandlers, rScroll,
    rStyle, rAge, rMutations, rConv, rHandlerOf, rDisplay>>

\* sendMessage up to its await, run by sendBtn.onclick or by Enter in the
\* input of the container in the document
ResilientSend ==
  /\ UNCHANGED notResilient
  /\ UNCHANGED ResilientMount
  /\ chatButton # 0
  /\ rHandlerOf[chatButton] # 0
  /\ rLast' = "none"
  /\ \E value \in Inputs :
       LET d == chatButton
           message == Trim(value)
           n == Len(rSubs) + 1
       IN IF message = <<>>
            THEN /\ rInput' = [rInput EXCEPT ![d] = value]
                 /\ UNCHANGED <<rNow, rRead, rMessages, rSubs>>
            ELSE /\ n <= MaxSends
                 /\ rMessages' = [rMessages EXCEPT ![d] =
                       Render(Render(@, UserMsg(n, message)), TypingMsg(n, rNow))]
                 /\ rInput' = [rInput EXCEPT ![d] = <<>>]
                 /\ rRead' = TRUE
                 /\ rSubs' = Append(rSubs,
                       [node |-> d, typingId |-> rNow, pc |-> "fetch",
                        outcome |-> "pending",
                        conversation_id |-> rConv[rHandlerOf[d]]])
                 /\ UNCHANGED rNow

\* document.getElementById(typingId): the container in the document whose
\* message list holds the first element with that id, 0 if none
TypingContainer(tid) ==
  LET hits == { i \in 1..Len(rDoc) : FirstTyping(rMessages[rDoc[i]], tid) # 0 }
  IN IF hits = {} THEN 0 ELSE rDoc[Min(hits)]

\* the message lists after the element found by id, if any, is removed
WithoutTyping(tid) ==
  IF TypingContainer(tid) = 0 THEN rMessages
  ELSE [rMessages EXCEPT ![TypingContainer(tid)] =
          RemoveAt(@, FirstTyping(@, tid))]

\* the catch branch: remove the placeholder if found, append the
\* connection error to the captured list
ResilientCatch(n, how) ==
  /\ rMessages' = [WithoutTyping(rSubs[n].typingId) EXCEPT ![rSubs[n].node] =
                     Render(@, ErrorMsg(n, "connection"))]
  /\ rSubs' = [rSubs EXCEPT ![n].pc = "done", ![n].outcome = how]

\* fetch resolves: document.getElementById(typingId).remove() raises when
\* nothing is found, which the catch branch handles; a non-OK response
\* renders its error, an OK one awaits response.json()
ResilientFetchResolves ==
  /\ UNCHANGED notResilient
  /\ UNCHANGED ResilientMount
  /\ UNCHANGED <<rNow, rRead, rInput>>
  /\ rLast' = "none"
  /\ \E n \in 1..Len(rSubs), ok \in BOOLEAN :
       /\ rSubs[n].pc = "fetch"
       /\ IF TypingContainer(rSubs[n].typingId) = 0
            THEN ResilientCatch(n, "removeThrow")
            ELSE IF ok
              THEN /\ rMessages' = WithoutTyping(rSubs[n].typingId)
                   /\ rSubs' = [rSubs EXCEPT ![n].pc = "json"]
              ELSE /\ rMessages' = [WithoutTyping(rSubs[n].typingId) EXCEPT
                                      ![rSubs[n].node] = Render(@, ErrorMsg(n, "generic"))]
                   /\ rSubs' = [rSubs EXCEPT ![n].pc = "done", ![n].outcome = "server"]

\* fetch rejects: the catch branch
ResilientFetchRejects ==
  /\ UNCHANGED notResilient
  /\ UNCHANGED ResilientMount
  /\ UNCHANGED <<rNow, rRead, rInput>>
  /\ rLast' = "none"
  /\ \E n \in 1..Len(rSubs) :
       /\ rSubs[n].pc = "fetch"
       /\ ResilientCatch(n, "rejected")

\* await response.json() settles: a body with a response string is
\* rendered; without one, or on rejection, the catch branch runs
ResilientJsonSettles ==
  /\ UNCHANGED notResilient
  /\ UNCHANGED ResilientMount
  /\ UNCHANGED <<rNow, rRead, rInput>>
  /\ rLast' = "none"
  /\ \E n \in 1..Len(rSubs), b \in OkBodies :
       /\ rSubs[n].pc = "json"
       /\ IF b = "wellformed"
            THEN /\ rMessages' = [rMessages EXCEPT ![rSubs[n].node] = Render(@, BotMsg(n))]
                 /\ rSubs' = [rSubs EXCEPT ![n].pc = "done", ![n].outcome = "ok"]
            ELSE ResilientCatch(n, "okThrow")

ResilientClicks == ResilientClickButton \/ ResilientClickClose

ResilientConversation ==
  \/ ResilientSend
  \/ ResilientFetchResolves
  \/ ResilientFetchRejects
  \/ ResilientJsonSettles

NextResilient ==
  \/ ResilientBodyParsed
  \/ ResilientContentLoaded
  \/ ResilientInitCall
  \/ ResilientSetupFires
  \/ IntervalTick
  \/ DocumentScroll
  \/ HostMutates
  \/ ResilientAdvance

\* =================================================================
\* Part IV: the dashboard stores (zustand)
\* =================================================================

\* ------------------------------------------------ useChatStore
MaxChatCalls == 3

\* conversation ids the backend hands out
ConvIds == 1..2

ChatStoreInit ==
  /\ conversations = <<>>
  /\ currentConversation = 0
  /\ storeMessages = <<>>
  /\ isMessageLoading = FALSE
  /\ sendCalls = <<>>

InList(seq, x) == \E i \in 1..Len(seq) : seq[i] = x

\* createConversation resolves: the new conversation is put first and
\* selected, the messages are emptied (a rejection changes nothing)
createConversation ==
  /\ UNCHANGED notChatStore
  /\ \E c \in ConvIds :
       /\ ~InList(conversations, c)
       /\ conversations' = <<c>> \o conversations
       /\ currentConversation' = c
  /\ storeMessages' = <<>>
  /\ UNCHANGED <<isMessageLoading, sendCalls>>

\* clearCurrentConversation
clearCurrentConversation ==
  /\ UNCHANGED notChatStore
  /\ currentConversation' = 0
  /\ storeMessages' = <<>>
  /\ UNCHANGED <<conversations, isMessageLoading, sendCalls>>

\* sendMessage up to await chatApi.sendMessage(request)
StoreSendCall ==
  /\ UNCHANGED notChatStore
  /\ Len(sendCalls) < MaxChatCalls
  /\ isMessageLoading' = TRUE
  /\ sendCalls' = Append(sendCalls, "await")
  /\ UNCHANGED <<conversations, currentConversation, storeMessages>>

\* the request resolves with conversation_id cid: both messages are
\* appended, the current conversation (if any) takes the id and is put
\* first in the list when the list has no conversation with that id; the
\* finally block resets the flag
StoreSendResolves ==
  /\ UNCHANGED notChatStore
  /\ \E n \in 1..Len(sendCalls), cid \in ConvIds :
       /\ sendCalls[n] = "await"
       /\ sendCalls' = [sendCalls EXCEPT ![n] = "resolved"]
       /\ storeMessages' = storeMessages \o
              <<[call |-> n, role |-> "user"], [call |-> n, role |-> "assistant"]>>
       /\ currentConversation' = IF currentConversation = 0 THEN 0 ELSE cid
       /\ conversations' =
            IF ~InList(conversations, cid) /\ currentConversation # 0
              THEN <<cid>> \o conversations
              ELSE conversations
  /\ isMessageLoading' = FALSE

\* the request rejects: the finally block resets the flag, the error is
\* rethrown
StoreSendRejects ==
  /\ UNCHANGED notChatStore
  /\ \E n \in 1..Len(sendCalls) :
       /\ sendCalls[n] = "await"
       /\ sendCalls' = [sendCalls EXCEPT ![n] = "rejected"]
  /\ isMessageLoading' = FALSE
  /\ UNCHANGED <<conversations, currentConversation, storeMessages>>

NextChatStore ==
  \/ createConversation
  \/ clearCurrentConversation
  \/ StoreSendCall
  \/ StoreSendResolves
  \/ StoreSendRejects

\* ------------------------------------------------ useAuthStore
MaxAuthCalls == 3

\* access tokens the backend hands out
Tokens == 1..2

AuthStoreInit ==
  /\ user = 0
  /\ token = 0
  /\ isAuthenticated = FALSE
  /\ isLoading = FALSE
  /\ localToken = 0
  /\ authCalls = <<>>

AuthCall(op, pc, tok, access, fetched, result) ==
  [op |-> op, pc |-> pc, token |-> tok, access |-> access, fetched |-> fetched,
   result |-> result]

\* login up to await authApi.login(credentials)
LoginCall ==
  /\ UNCHANGED notAuthStore
  /\ Len(authCalls) < MaxAuthCalls
  /\ isLoading' = TRUE
  /\ authCalls' = Append(authCalls, AuthCall("login", "request", 0, 0, "none", "pending"))
  /\ UNCHANGED <<user, token, isAuthenticated, localToken>>

\* the login request resolves with an access token: it is stored in
\* localStorage and in the store, and refreshUser runs up to
\* await authApi.getCurrentUser() with the token it read from localStorage
LoginRequestResolves ==
  /\ UNCHANGED notAuthStore
  /\ \E n \in 1..Len(authCalls), t \in Tokens :
       /\ authCalls[n].op = "login"
       /\ authCalls[n].pc = "request"
       /\ localToken' = t
       /\ token' = t
       /\ authCalls' = [authCalls EXCEPT ![n] =
                          AuthCall("login", "user", t, t, "pending", "pending")]
  /\ UNCHANGED <<user, isAuthenticated, isLoading>>

\* the login request rejects: the error is rethrown after the finally block
LoginRequestRejects ==
  /\ UNCHANGED notAuthStore
  /\ \E n \in 1..Len(authCalls) :
       /\ authCalls[n].op = "login"
       /\ authCalls[n].pc = "request"
       /\ authCalls' = [authCalls EXCEPT ![n] =
                          AuthCall("login", "done", 0, 0, "none", "rejected")]
  /\ isLoading' = FALSE
  /\ UNCHANGED <<user, token, isAuthenticated, localToken>>

\* refreshUser called on its own: without a token in localStorage it clears
\* the store and returns, else it awaits authApi.getCurrentUser()
RefreshCall ==
  /\ UNCHANGED notAuthStore
  /\ Len(authCalls) < MaxAuthCalls
  /\ IF localToken = 0
       THEN /\ isAuthenticated' = FALSE
            /\ user' = 0
            /\ token' = 0
            /\ authCalls' = Append(authCalls,
                 AuthCall("refresh", "done", 0, 0, "none", "resolved"))
       ELSE /\ authCalls' = Append(authCalls,
                 AuthCall("refresh", "user", localToken, 0, "pending", "pending"))
            /\ UNCHANGED <<user, token, isAuthenticated>>
  /\ UNCHANGED <<isLoading, localToken>>

\* what the caller of a settled refreshUser does next: login shows its toast
\* and its finally block resets isLoading
LoadingAfterRefresh(op) == IF op = "login" THEN FALSE ELSE isLoading

\* getCurrentUser resolves: refreshUser stores the user, the token it read
\* and isAuthenticated, and returns
UserResolves ==
  /\ UNCHANGED notAuthStore
  /\ \E n \in 1..Len(authCalls) :
       /\ authCalls[n].pc = "user"
       /\ user' = 1
       /\ token' = authCalls[n].token
       /\ isAuthenticated' = TRUE
       /\ isLoading' = LoadingAfterRefresh(authCalls[n].op)
       /\ authCalls' = [authCalls EXCEPT ![n].pc = "done", ![n].fetched = "ok",
                                          ![n].result = "resolved"]
  /\ UNCHANGED localToken

\* getCurrentUser rejects: the catch of refreshUser removes the token from
\* localStorage, clears the store and returns normally
UserRejects ==
  /\ UNCHANGED notAuthStore
  /\ \E n \in 1..Len(authCalls) :
       /\ authCalls[n].pc = "user"
       /\ localToken' = 0
       /\ user' = 0
       /\ token' = 0
       /\ isAuthenticated' = FALSE
       /\ isLoading' = LoadingAfterRefresh(authCalls[n].op)
       /\ authCalls' = [authCalls EXCEPT ![n].pc = "done", ![n].fetched = "failed",
                                          ![n].result = "resolved"]

\* register up to await authApi.register(data)
RegisterCall ==
  /\ UNCHANGED notAuthStore
  /\ Len(authCalls) < MaxAuthCalls
  /\ isLoading' = TRUE
  /\ authCalls' = Append(authCalls, AuthCall("register", "request", 0, 0, "none", "pending"))
  /\ UNCHANGED <<user, token, isAuthenticated, localToken>>

\* the register request resolves: set({ user, isAuthenticated: true })
RegisterResolves ==
  /\ UNCHANGED notAuthStore
  /\ \E n \in 1..Len(authCalls) :
       /\ authCalls[n].op = "register"
       /\ authCalls[n].pc = "request"
       /\ authCalls' = [authCalls EXCEPT ![n].pc = "done", ![n].result = "resolved"]
  /\ user' = 1
  /\ isAuthenticated' = TRUE
  /\ isLoading' = FALSE
  /\ UNCHANGED <<token, localToken>>

\* the register request rejects
RegisterRejects ==
  /\ UNCHANGED notAuthStore
  /\ \E n \in 1..Len(authCalls) :
       /\ authCalls[n].op = "register"
       /\ authCalls[n].pc = "request"
       /\ authCalls' = [authCalls EXCEPT ![n].pc = "done", ![n].result = "rejected"]
  /\ isLoading' = FALSE
  /\ UNCHANGED <<user, token, isAuthenticated, localToken>>

\* logout
logout ==
  /\ UNCHANGED notAuthStore
  /\ localToken' = 0
  /\ user' = 0
  /\ token' = 0
  /\ isAuthenticated' = FALSE
  /\ UNCHANGED <<isLoading, authCalls>>

NextAuthStore ==
  \/ LoginCall
  \/ LoginRequestResolves
  \/ LoginRequestRejects
  \/ RefreshCall
  \/ UserResolves
  \/ UserRejects
  \/ RegisterCall
  \/ RegisterResolves
  \/ RegisterRejects
  \/ logout

\* ------------------------------------------------ useDocumentStore
MaxUploads == 3

\* the File objects the page passes to uploadDocument
Files == 1..2

\* the delays of the two setTimeout calls of uploadDocument, in seconds
SuccessDelay == 2
FailureDelay == 5

DocumentStoreInit ==
  /\ documents = <<>>
  /\ uploadProgress = <<>>
  /\ uploads = <<>>
  /\ removals = {}

\* the progress argument of MapFile that leaves item.progress as it is
Keep == -1

\* state.uploadProgress.map(item => item.file === file ? change(item) : item)
RECURSIVE MapFile(_, _, _, _)
MapFile(list, file, progress, status) ==
  IF list = <<>> THEN <<>>
  ELSE <<IF Head(list).file = file
           THEN [Head(list) EXCEPT !.progress = IF progress = Keep THEN @ ELSE progress,
                                   !.status = status]
           ELSE Head(list)>> \o MapFile(Tail(list), file, progress, status)

\* state.uploadProgress.filter(item => item.file !== file)
RECURSIVE FilterFile(_, _)
FilterFile(list, file) ==
  IF list = <<>> THEN <<>>
  ELSE IF Head(list).file = file THEN FilterFile(Tail(list), file)
  ELSE <<Head(list)>> \o FilterFile(Tail(list), file)

\* uploadDocument up to await documentsApi.uploadDocument: the progress
\* entry of the call is appended
uploadDocument ==
  /\ UNCHANGED notDocumentStore
  /\ Len(uploads) < MaxUploads
  /\ \E f \in Files :
       /\ uploadProgress' = Append(uploadProgress,
             [file |-> f, progress |-> 0, status |-> "uploading",
              call |-> Len(uploads) + 1])
       /\ uploads' = Append(uploads, [file |-> f, pc |-> "upload"])
  /\ UNCHANGED <<documents, removals>>

\* a progress event of a running upload with a known total
UploadProgressEvent ==
  /\ UNCHANGED notDocumentStore
  /\ \E n \in 1..Len(uploads) :
       /\ uploads[n].pc = "upload"
       /\ uploadProgress' = MapFile(uploadProgress, uploads[n].file, 50, "uploading")
  /\ UNCHANGED <<documents, uploads, removals>>

\* the upload resolves: the entries of the file go to 100 % 'processing',
\* the document is put first, the removal is scheduled
UploadResolves ==
  /\ UNCHANGED notDocumentStore
  /\ \E n \in 1..Len(uploads) :
       /\ uploads[n].pc = "upload"
       /\ uploadProgress' = MapFile(uploadProgress, uploads[n].file, 100, "processing")
       /\ documents' = <<n>> \o documents
       /\ removals' = removals \cup
             {[call |-> n, file |-> uploads[n].file, rem |-> SuccessDelay]}
       /\ uploads' = [uploads EXCEPT ![n].pc = "resolved"]

\* the upload rejects: the entries of the file get status 'error', the
\* removal is scheduled, the error is rethrown
UploadRejects ==
  /\ UNCHANGED notDocumentStore
  /\ \E n \in 1..Len(uploads) :
       /\ uploads[n].pc = "upload"
       /\ uploadProgress' = MapFile(uploadProgress, uploads[n].file, Keep, "error")
       /\ removals' = removals \cup
             {[call |-> n, file |-> uploads[n].file, rem |-> FailureDelay]}
       /\ uploads' = [uploads EXCEPT ![n].pc = "rejected"]
  /\ UNCHANGED documents

\* a removal callback runs
RemovalFires ==
  /\ UNCHANGED notDocumentStore
  /\ \E t \in removals :
       /\ t.rem = 0
       /\ uploadProgress' = FilterFile(uploadProgress, t.file)
       /\ removals' = removals \ {t}
  /\ UNCHANGED <<documents, uploads>>

\* a second passes while no removal callback is due
UploadAdvance ==
  /\ UNCHANGED notDocumentStore
  /\ removals # {}
  /\ \A t \in removals : t.rem > 0
  /\ removals' = { [t EXCEPT !.rem = @ - 1] : t \in removals }
  /\ UNCHANGED <<documents, uploadProgress, uploads>>

NextDocumentStore ==
  \/ uploadDocument
  \/ UploadProgressEvent
  \/ UploadResolves
  \/ UploadRejects
  \/ RemovalFires
  \/ UploadAdvance

StoresInit == ChatStoreInit /\ AuthStoreInit /\ DocumentStoreInit

\* ================================================= claims, widget.js
Subs == 1..Len(subs)

\* the places (generation, index) of the entries of submission n of the given kinds
Entries(n, kinds) ==
  { <<g, i>> \in Gens \X (1..(3 * MaxSends + 1)) :
       /\ i <= Len(messages[g])
       /\ messages[g][i].sub = n
       /\ messages[g][i].kind \in kinds }

Terminal == {"bot", "error"}

\* index in list of the only entry of submission n of the given kinds, 0 if none
Pos(list, n, kinds) ==
  LET hits == { i \in 1..Len(list) : list[i].sub = n /\ list[i].kind \in kinds }
  IN IF hits = {} THEN 0 ELSE Min(hits)

Typings(g) == { i \in 1..Len(messages[g]) : messages[g][i].kind = "typing" }

Failed == {"rejected", "server", "serverThrow"}

\* C1: every submission whose fetch has settled has appended exactly one user
\* message, created one typing placeholder, removed that placeholder itself,
\* and appended exactly one terminal message (assistant or error)
C1_OneOfEach ==
  \A n \in Subs :
    /\ Cardinality(Entries(n, {"user"})) = 1
    /\ Cardinality(Entries(n, {"typing"})) = (IF removedBy[n] = 0 THEN 1 ELSE 0)
    /\ subs[n].pc = "done" =>
         /\ removedBy[n] = n
         /\ Cardinality(Entries(n, Terminal)) = 1

\* C2: once the terminal message of a submission is in the list, the
\* placeholder that submission created is in no message list; with no fetch
\* in flight no list holds a placeholder
C2_NoOrphan ==
  /\ \A n \in Subs : Entries(n, Terminal) # {} => Entries(n, {"typing"}) = {}
  /\ (\A n \in Subs : subs[n].pc = "done") => \A g \in Gens : Typings(g) = {}

\* C4: a message list never holds more than one typing placeholder
C4_AtMostOnePlaceholder == \A g \in Gens : Cardinality(Typings(g)) <= 1

\* the user messages of two overlapping submissions are in the list from
\* the moment of the call, in call order
UserInCallOrder ==
  \A a, b \in Subs :
    (a < b /\ subs[a].gen = subs[b].gen) =>
       LET list == messages[subs[a].gen]
       IN /\ Pos(list, a, {"user"}) > 0
          /\ Pos(list, a, {"user"}) < Pos(list, b, {"user"})

Before(seq, a, b) ==
  \E i, j \in 1..Len(seq) : i < j /\ seq[i] = a /\ seq[j] = b

\* C5 as claimed: with two submissions made before the first response
\* returned, the user messages are in call order and the terminal messages
\* are in the order in which the two fetch calls settled
C5_FetchSettleOrder ==
  /\ UserInCallOrder
  /\ \A a, b \in Subs :
       ( /\ a \in subs[b].during
         /\ subs[a].gen = subs[b].gen
         /\ subs[a].pc = "done" /\ subs[b].pc = "done" ) =>
          LET list == messages[subs[a].gen]
          IN Pos(list, a, Terminal) < Pos(list, b, Terminal) <=> Before(fetchOrder, a, b)

\* the entries of a list that are not typing placeholders
RECURSIVE Permanent(_)
Permanent(list) ==
  IF list = <<>> THEN <<>>
  ELSE IF Head(list).kind = "typing" THEN Permanent(Tail(list))
  ELSE <<Head(list)>> \o Permanent(Tail(list))

IsPrefix(s, t) == Len(s) <= Len(t) /\ SubSeq(t, 1, Len(s)) = s

\* a step only appends to the permanent entries of every list
AppendOnlyStep ==
  \A g \in Gens : IsPrefix(Permanent(messages[g]), Permanent(messages'[g]))

\* the step in which the last await of a submission settles appends its
\* terminal message at the end of its list
CompletionAppendsLast ==
  \A n \in Subs :
    (subs[n].pc # "done" /\ subs'[n].pc = "done") =>
       LET list == messages'[subs[n].gen]
       IN /\ list[Len(list)].sub = n
          /\ list[Len(list)].kind \in Terminal
          /\ Permanent(list) = Append(Permanent(messages[subs[n].gen]), list[Len(list)])

\* C5 amended: the user messages are in call order, and each terminal message
\* is appended, after everything rendered before, by the step in which the
\* last await of its submission settles: response.json() after a resolved
\* fetch, the fetch itself when it rejects
C5_LastAwaitOrder ==
  /\ []UserInCallOrder
  /\ [][AppendOnlyStep /\ CompletionAppendsLast]_vars

\* two overlapping submissions whose terminal messages are rendered against
\* the order in which their fetch calls settled
C5_Witness ==
  /\ Len(subs) = 2
  /\ 1 \in subs[2].during
  /\ subs[1].gen = subs[2].gen
  /\ subs[1].pc = "done" /\ subs[2].pc = "done"
  /\ fetchOrder = <<1, 2>>
  /\ Pos(messages[subs[1].gen], 2, Terminal) < Pos(messages[subs[1].gen], 1, Terminal)

NamesApiUrl(m) == m.text = <<"apiUrl">>

ErrorsOf(n) ==
  { messages[e[1]][e[2]] : e \in Entries(n, {"error"}) }

Attached(msgs, wins, tid) ==
  IF wins = {} THEN 0
  ELSE Cardinality({ i \in 1..Len(msgs[Min(wins)]) :
          msgs[Min(wins)][i].kind = "typing" /\ msgs[Min(wins)][i].tid = tid })

\* a step of the failure paths that looks the placeholder up removes the
\* element found, if there is one
FailureRemovesFound ==
  \A n \in Subs :
    ( \/ subs[n].pc = "fetch" /\ subs'[n].pc = "errjson"
      \/ subs[n].pc = "fetch" /\ subs'[n].pc = "done"
      \/ subs[n].pc = "errjson" /\ subs'[n].outcome = "serverThrow" ) =>
       LET c == Attached(messages, windows, subs[n].typingId)
       IN Attached(messages', windows', subs[n].typingId) = (IF c > 0 THEN c - 1 ELSE 0)

FailureRendered ==
  \A n \in Subs :
    (subs[n].pc = "done" /\ subs[n].outcome \in Failed) =>
       /\ Cardinality(Entries(n, {"error"})) = 1
       /\ Entries(n, {"bot"}) = {}
       /\ \A m \in ErrorsOf(n) :
            IF subs[n].outcome = "server"
              THEN m.text \in {<<"detail">>, <<"generic">>}
              ELSE NamesApiUrl(m)

C3_SingleWidget ==
  /\ [](Cardinality(buttons) <= 1 /\ Cardinality(windows) <= 1)
  /\ [][(calls' = calls + 1 /\ body) =>
          (Cardinality(buttons') = 1 /\ Cardinality(windows') = 1)]_vars

\* a createChatbot call replaced the nodes of an earlier one after two inits
C3_Witness ==
  /\ inits = 2
  /\ calls >= 2
  /\ bodyAtCall[1] /\ bodyAtCall[calls]
  /\ buttons = {calls}
  /\ windows = {calls}

Closed(d) == d = "none" \/ d = ""
Open(d) == d = "block"

\* the installed handlers act on the panel attached to the document
HandlersOnAttachedPanel ==
  /\ (button # 0 /\ window # 0 /\ onclick[button] # 0) => onclick[button] = window
  /\ (window # 0 /\ closeHandler[window] # 0) => closeHandler[window] = window
  /\ \A g \in Gens : Closed(display[g]) \/ Open(display[g])

\* C10: a click on the button moves the attached panel from closed to open
\* and from open to closed, a click on the close control leaves it closed,
\* and display changes only while widget nodes are attached
C10_ToggleSemantics ==
  /\ []HandlersOnAttachedPanel
  /\ [][(lastClick' = "button" /\ window # 0) =>
          /\ Closed(display[window]) => Open(display'[window])
          /\ Open(display[window]) => Closed(display'[window])]_vars
  /\ [][lastClick' = "close" => (window # 0 /\ Closed(display'[window]))]_vars
  /\ [][display' # display => (buttons # {} \/ windows # {})]_vars

\* the attached panel has been opened by a click
C10_Witness ==
  /\ window # 0 /\ button # 0
  /\ lastClick = "button"
  /\ Open(display[window])

\* ------------------------------------------------- specifications
Environment == BodyParsed \/ DOMContentLoaded \/ Advance \/ TickMs

Timers == GraceFires \/ MountFires \/ BackupFires \/ SetupFires

Host == HostRemovesButton \/ HostRemovesWindow

Clicks == ClickButton \/ ClickClose

Conversation ==
  sendMessage \/ FetchResolves \/ FetchRejects \/ JsonSettles \/ ErrorJsonSettles

\* ------------------------------------------- claims, submissions

\* s holds nothing but blanks
Blank(s) == \A i \in 1..Len(s) : s[i] = " "

\* s without its leading and trailing blanks
Core(s) ==
  IF Blank(s) THEN <<>>
  ELSE LET marks == { i \in 1..Len(s) : s[i] # " " }
       IN SubSeq(s, Min(marks), CHOOSE i \in marks : \A j \in marks : j <= i)

\* a sendMessage run that accepted its input: it appended a submission
Accepted == Len(subs') = Len(subs) + 1

\* a sendMessage run that rejected its input: the input field shows what
\* was submitted and no submission was appended
Rejected == input' # input /\ Len(subs') = Len(subs)

\* C15: a submission of an empty or whitespace-only input changes nothing
\* (no user message, no placeholder, no request, the input keeps its
\* content); any other input is accepted and the input field is emptied in
\* the step that issues the request, before any response can arrive
C15_BlankRejected ==
  /\ [][Rejected =>
          /\ window # 0
          /\ Blank(input'[window])
          /\ UNCHANGED <<messages, posts, subs, removedBy>>]_vars
  /\ [][Accepted =>
          LET n == Len(subs') IN
          /\ ~Blank(subs'[n].raw)
          /\ input'[subs'[n].gen] = <<>>
          /\ Len(posts') = Len(posts) + 1
          /\ subs'[n].pc = "fetch"
          /\ \E i \in 1..Len(messages'[subs'[n].gen]) :
               /\ messages'[subs'[n].gen][i].kind = "user"
               /\ messages'[subs'[n].gen][i].sub = n]_vars

C15_Witness ==
  /\ window # 0
  /\ input[window] = <<" ">>
  /\ Len(subs) = 1
  /\ Len(posts) = 1

\* C16: every accepted submission issues exactly one POST, carrying the
\* trimmed text, the conversation_id of the createChatbot invocation whose
\* setup callback installed the handler, use_rag = true, max_documents = 5;
\* no request is issued at any other step, in particular none on failure
C16_OnePostPerSubmission ==
  /\ [](Len(posts) = Len(subs))
  /\ [](\A n \in 1..Len(posts) :
          /\ n <= Len(subs)
          /\ posts[n].message = Core(subs[n].raw)
          /\ posts[n].use_rag = TRUE
          /\ posts[n].max_documents = 5
          /\ \E k \in 1..calls : posts[n].conversation_id = conversationId[k])
  /\ [][Accepted =>
          /\ window # 0
          /\ sendHandler[window] # 0
          /\ posts' = Append(posts,
               [message |-> Core(subs'[Len(subs')].raw),
                conversation_id |-> conversationId[sendHandler[window]],
                use_rag |-> TRUE, max_documents |-> 5])]_vars
  /\ [][posts' # posts => Accepted]_vars

C16_Witness ==
  /\ Len(subs) = 2
  /\ Len(posts) = 2
  /\ subs[1].outcome = "rejected"
  /\ subs[2].pc = "done"

\* the rendered messages of the message list in the document
Rendered(wins, msgs) == IF wins = {} THEN <<>> ELSE Permanent(msgs[Min(wins)])

\* C17: within one page load all chat requests carry the same
\* conversation_id, and no mount attempt replaces the messages already
\* rendered in the document
C17_OneConversation ==
  /\ [](\A i, j \in 1..Len(posts) :
          posts[i].conversation_id = posts[j].conversation_id)
  /\ [][calls' = calls + 1 =>
          IsPrefix(Rendered(windows, messages), Rendered(windows', messages'))]_vars

\* C19: every write of a submission to a message list goes to the list that
\* is in the document under the reserved id at that moment, also after a
\* later mount has replaced the widget nodes
C19_RendersIntoDocument ==
  [][\A g \in Gens :
       (messages'[g] # messages[g] /\ windows' # {}) => g = Min(windows')]_vars

\* ------------------------------------------- claims, mount scheduling

\* the backup check of init call i has run
Backed(i) == backupLog[i] # <<>>

\* the createChatbot invocations caused by init call i
CallsBy(i) == { k \in 1..Len(callLog) : callLog[k].by = i }

\* C11: for a single init call and every timing of DOMContentLoaded,
\* createChatbot has been invoked at least once when the backup check is
\* over; when the document was already loaded at init and no host script
\* removed the button, createChatbot is invoked exactly once
C11_MountAttempted ==
  /\ \A i \in 1..MaxInits : Backed(i) => calls >= 1
  /\ (inits = 1 /\ loadedAtInit[1] /\ ~hostRemovedButton) =>
       /\ calls <= 1
       /\ Backed(1) => calls = 1

C11_Witness ==
  /\ inits = 1
  /\ readyState = "loading"
  /\ Backed(1)
  /\ callLog = <<[by |-> 1, kind |-> "backup"]>>

\* the backup check of every init call runs once, 5000 ms after the call,
\* and invokes createChatbot exactly when it finds no button
BackupChecksOnce ==
  \A i \in 1..MaxInits :
    /\ Len(backupLog[i]) <= 1
    /\ i > inits => ~Backed(i)
    /\ (i <= inits /\ ~Backed(i)) => \E t \in timers : t.kind = "backup" /\ t.id = i
    /\ Backed(i) =>
         /\ backupLog[i][1].at = BackupMs \div TimeUnit
         /\ backupLog[i][1].called = ~backupLog[i][1].found
         /\ ~\E t \in timers : t.kind = "backup" /\ t.id = i

AtMostTwoCalls == \A i \in 1..MaxInits : Cardinality(CallsBy(i)) <= 2

\* the primary mount timers of init call i that a step adds
NewMountTimers(i) ==
  { t \in timers' : /\ t.kind \in {"grace", "mount"}
                    /\ t.id = i
                    /\ ~\E u \in timers : u.kind = t.kind /\ u.id = i }

\* C12 as stated: one backup check per init, 5000 ms after it, invoking
\* createChatbot iff no button is in the document; after the check that init
\* schedules no further mount attempt; at most two invocations per init
C12_BackupThenNothing ==
  /\ [](BackupChecksOnce /\ AtMostTwoCalls)
  /\ [][\A i \in 1..MaxInits : Backed(i) => NewMountTimers(i) = {}]_vars

\* C12 amended: as stated, except that after the check the primary mount of
\* that init can still be scheduled once, by its DOMContentLoaded listener
\* when the event fires after the check; the check itself schedules no
\* mount attempt
C12_BackupOnce ==
  /\ [](BackupChecksOnce /\ AtMostTwoCalls)
  /\ [][\A i \in 1..MaxInits :
          (Backed(i) /\ NewMountTimers(i) # {}) =>
            /\ i \in listeners
            /\ readyState = "loading"
            /\ readyState' = "done"
            /\ NewMountTimers(i) = {Timer("mount", MountMs \div TimeUnit, i)}]_vars

C12_Witness ==
  /\ Backed(1)
  /\ ~backupLog[1][1].found
  /\ Cardinality(CallsBy(1)) = 2

\* C13: a createChatbot invocation that finds document.body absent attaches
\* no widget node, installs no handler and schedules no setup timer; nothing
\* of the page changes
C13_NoBodyNoEffect ==
  [][(calls' = calls + 1 /\ ~body) =>
       /\ buttons' = {}
       /\ windows' = {}
       /\ UNCHANGED <<display, input, messages, onclick, closeHandler,
                      sendHandler, listeners, readyState, body, subs, posts>>
       /\ timers' \subseteq timers
       /\ ~\E t \in timers' : t.kind = "setup" /\ t.id = calls']_vars

C13_Witness ==
  /\ calls = 1
  /\ ~bodyAtCall[1]
  /\ buttons = {}
  /\ ~\E t \in timers : t.kind = "setup"

\* the step removes the placeholder of submission n from within n itself
OwnRemoval(n) == removedBy[n] # n /\ removedBy'[n] = n

\* the step appends a terminal message of submission n
TerminalAppended(n) ==
  \E g \in Gens :
    /\ Len(messages'[g]) >= 1
    /\ messages'[g][Len(messages'[g])].sub = n
    /\ messages'[g][Len(messages'[g])].kind \in Terminal
    /\ Entries(n, Terminal) = {}

C22_HungFetchKeepsPlaceholder ==
  \A n \in Subs :
    /\ removedBy[n] \in {0, n}
    /\ subs[n].pc = "fetch" =>
         /\ removedBy[n] = 0
         /\ Cardinality(Entries(n, {"typing"})) = 1

\* ======================================= claims, the by-domain widget

\* number of entries of submission n in the message list with a kind of kinds
DomainEntries(n, kinds) ==
  Cardinality({ i \in 1..Len(chatMessages) :
                  chatMessages[i].sub = n /\ chatMessages[i].kind \in kinds })

ErrorReplies == {"notenant", "handlerError", "backendError", "connectionError"}

\* C7: whenever detectTenant ends without a tenant, initWidget still creates
\* the widget, and every later submission of non-empty text renders the user
\* message, removes the typing indicator and renders exactly one error reply,
\* without issuing a POST to /api/chat/by-domain
C7_DegradedMode ==
  /\ \A i \in 1..Len(lookups) :
       lookups[i].result = "none" => (lookups[i].pc = "done" /\ containers >= 1)
  /\ \A n \in 1..Len(chats) :
       chats[n].afterFail =>
         /\ ~chats[n].posted
         /\ DomainEntries(n, {"user"}) = 1
         /\ DomainEntries(n, {"typing"}) = 0
         /\ DomainEntries(n, ErrorReplies) = 1
         /\ DomainEntries(n, {"bot", "sources"}) = 0

\* C8: at most one GET /api/tenant/detect is issued per page load, whatever
\* the interleaving of the automatic initialisation, explicit init() calls
\* and submissions; a failed lookup is never repeated
C8_SingleLookup == Len(lookups) <= 1

\* C14: open(), close() and init() never raise an exception into the
\* calling script, whatever the mount state and the order of the calls, and
\* before mounting the panel stays closed
C14_ApiNeverRaises ==
  /\ ~apiRaised
  /\ containers = 0 => (~isOpen /\ chatDisplay = "none")

\* C18: the widget nodes exist only after the tenant lookup has settled, no
\* submission is made while the lookup is in flight, and every POST to
\* /api/chat/by-domain was issued with currentTenant non-null
C18_TenantBeforeTraffic ==
  /\ containers > 0 => \E i \in 1..Len(lookups) : lookups[i].pc = "done"
  /\ \A n \in 1..Len(chats) : ~chats[n].lookupPending
  /\ \A n \in 1..Len(chats) : chats[n].posted => chats[n].tenant # 0

\* C23: whatever the interleaving of the automatic initialisation and
\* explicit init() calls, an init() during the pending tenant lookup
\* included, createChatWidget runs at most once and after initialisation the
\* document holds exactly one #floors-chatbot-container
C23_SingleContainer ==
  /\ Cardinality({ i \in 1..Len(lookups) : lookups[i].pc = "done" }) <= 1
  /\ containers <= 1
  /\ isInitialized => containers = 1

\* the submissions whose typing indicator is in the list
IndicatorsOf(list) ==
  { list[i].sub : i \in { j \in 1..Len(list) : list[j].kind = "typing" } }

\* C24: with submissions in flight and replies arriving in any order, the
\* step that renders the reply of a submission removes the indicator this
\* submission created and no other, and once all replies are rendered no
\* indicator remains
C24_OwnIndicatorRemoved ==
  /\ [](( \A n \in 1..Len(chats) : chats[n].pc = "done" ) =>
          IndicatorsOf(chatMessages) = {})
  /\ [][\A n \in 1..Len(chats) :
          (chats[n].pc = "fetch" /\ chats'[n].pc = "done") =>
             /\ n \in IndicatorsOf(chatMessages)
             /\ IndicatorsOf(chatMessages') = IndicatorsOf(chatMessages) \ {n}]_vars

\* C25: once the widget is mounted, isOpen is true exactly when the display
\* of #floors-chat-window is 'block', through every sequence of toggle
\* clicks, close clicks, open() and close(); open() on an open panel and
\* close() on a closed panel change nothing
C25_FlagMatchesDisplay ==
  /\ [](containers > 0 =>
         /\ chatDisplay \in {"none", "block"}
         /\ isOpen <=> chatDisplay = "block")
  /\ [][((containers > 0 /\ isOpen /\ ApiOpen) => UNCHANGED dvars)
        /\ ((containers > 0 /\ ~isOpen /\ ApiClose) => UNCHANGED dvars)]_vars

\* the mounted panel is open, a submission has been rendered
C25_Witness ==
  /\ containers > 0
  /\ isOpen
  /\ chatDisplay = "block"
  /\ Len(chats) >= 1

\* ==================================== claims, the resilient widget variant

\* C9: once an interval is installed, every button in the document whose
\* inline position, bottom, right or z-index was overwritten by the host has
\* them restored by the next tick, at most one interval later, and every tick
\* leaves every button in the document with the required geometry
C9_TickRestores ==
  /\ [](IntervalInstalled =>
          \A c \in InDocument : rStyle[c] # {} => rAge[c] <= IntervalDelay)
  /\ [][rLast' = "tick" => \A c \in InDocument : rStyle'[c] = {}]_vars

\* the interval callback or enforcePosition made the step
Reasserts == rLast' \in {"tick", "scroll"}

\* C20: every interval tick and every run of the scroll handler leaves the
\* message lists, the input, the conversationId, the submissions with their
\* placeholders and the open/closed state of the panel unchanged
C20_ReassertionFrame ==
  [][Reasserts => UNCHANGED <<rMessages, rInput, rConv, rSubs, rDisplay,
                              rHandlerOf, rNow, rRead>>]_vars

\* an interval tick has just run while a submission awaits its fetch behind
\* an open panel
C20_Witness ==
  /\ rLast = "tick"
  /\ \E n \in 1..Len(rSubs) : rSubs[n].pc = "fetch"
  /\ chatButton # 0
  /\ rDisplay[chatButton] = "block"

\* C26: whenever the widget nodes are attached to the document, the toggle,
\* close and send handlers and the re-assertion interval get installed: once
\* the nodes are attached and no setup callback is pending any more, the
\* button found by id has its handlers and an interval is running; also when
\* init ran before document.body existed and DOMContentLoaded came more than
\* 500 ms later
C26_AttachedGetsHandlers ==
  (rDoc # <<>> /\ ~\E t \in rTimers : t.kind = "setup") =>
     /\ chatButton \in rHandlers
     /\ IntervalInstalled

\* ========================================== claims, the dashboard stores

\* C27: isMessageLoading is true in every state in which a sendMessage call
\* awaits its response and false when none does, for any number of
\* overlapping calls and any mix of successes and failures
C27_LoadingWhileAwaiting ==
  isMessageLoading <=> \E n \in 1..Len(sendCalls) : sendCalls[n] = "await"

\* C28: after any sequence of login, register, logout and refreshUser
\* calls, isAuthenticated is true only if token and user are non-null
C28_AuthenticatedHasToken ==
  isAuthenticated => (token # 0 /\ user # 0)

\* the step in which login call n settles
LoginSettles(n) ==
  /\ authCalls[n].op = "login"
  /\ authCalls[n].pc # "done"
  /\ authCalls'[n].pc = "done"

\* C29: when login resolves without throwing, the store holds the returned
\* access token, a non-null user and isAuthenticated = true; when the login
\* request or the following user fetch fails, login rejects and the store is
\* left unauthenticated with isLoading false
C29_LoginOutcome ==
  [][\A n \in 1..Len(authCalls) :
       LoginSettles(n) =>
         /\ authCalls'[n].result = "resolved" =>
              /\ token' = authCalls'[n].access
              /\ token' # 0
              /\ user' # 0
              /\ isAuthenticated'
         /\ (authCalls[n].pc = "request" \/ authCalls'[n].fetched = "failed") =>
              /\ authCalls'[n].result = "rejected"
              /\ ~isAuthenticated'
              /\ ~isLoading']_vars

\* the uploadProgress entries added by call n
EntriesOfUpload(n) ==
  { i \in 1..Len(uploadProgress) : uploadProgress[i].call = n }

\* C30: every uploadDocument call adds exactly one uploadProgress entry,
\* which stays until its own upload has succeeded or failed and is removed
\* by the scheduled callback; on success the returned document is in
\* documents exactly once; also when uploads of the same File overlap
C30_OwnProgressEntry ==
  \A n \in 1..Len(uploads) :
    /\ Cardinality(EntriesOfUpload(n)) <= 1
    /\ uploads[n].pc = "upload" => Cardinality(EntriesOfUpload(n)) = 1
    /\ (\E t \in removals : t.call = n) => Cardinality(EntriesOfUpload(n)) = 1
    /\ Cardinality({ i \in 1..Len(documents) : documents[i] = n }) =
         (IF uploads[n].pc = "resolved" THEN 1 ELSE 0)

Next ==
  \/ Environment
  \/ init
  \/ Timers
  \/ Host
  \/ Clicks
  \/ Conversation
  \/ NextDomain
  \/ NextResilient
  \/ ResilientTickMs
  \/ ResilientClicks
  \/ ResilientConversation
  \/ NextChatStore
  \/ NextAuthStore
  \/ NextDocumentStore

Init == WidgetInit /\ DomainInit("loading") /\ ResilientInit(TRUE) /\ StoresInit

Spec == Init /\ [][Next]_vars

\* widget.js, mounting: any number of init calls, no conversation traffic
NextMount == Environment \/ init \/ Timers \/ Host \/ Clicks

SpecMount == Init /\ [][NextMount]_vars

\* widget.js, conversation: the page calls init ChatInits times; the click
\* handlers only write window.style.display, which no step of sendMessage reads
NextChat ==
  \/ Environment
  \/ (inits < ChatInits /\ init)
  \/ Timers
  \/ Host
  \/ Conversation

SpecChat == Init /\ [][NextChat]_vars

\* the by-domain widget: the script runs while the document is loading or after
InitDomain ==
  /\ WidgetInit /\ ResilientInit(TRUE) /\ StoresInit
  /\ \E rs \in {"loading", "done"} : DomainInit(rs)

SpecDomain == InitDomain /\ [][NextDomain]_vars

\* the resilient variant: the script runs while the document is loading or after
InitResilient ==
  /\ WidgetInit /\ DomainInit("loading") /\ StoresInit
  /\ \E loading \in BOOLEAN : ResilientInit(loading)

SpecResilient == InitResilient /\ [][NextResilient]_vars

\* the resilient variant, conversation: the page calls init ChatInits times
NextResilientChat ==
  \/ ResilientBodyParsed
  \/ ResilientContentLoaded
  \/ (rInits < ChatInits /\ ResilientInitCall)
  \/ ResilientSetupFires
  \/ IntervalTick
  \/ DocumentScroll
  \/ HostMutates
  \/ ResilientAdvance
  \/ ResilientTickMs
  \/ ResilientClicks
  \/ ResilientConversation

SpecResilientChat == InitResilient /\ [][NextResilientChat]_vars

\* the dashboard stores, each on its own
SpecChatStore == Init /\ [][NextChatStore]_vars

SpecAuthStore == Init /\ [][NextAuthStore]_vars

SpecDocumentStore == Init /\ [][NextDocumentStore]_vars

====
